---- MODULE Spec2Model ----
(***************************************************************************)
(* Model of the relay command of resocks (src/relay.go):                   *)
(*   runRemoteProxyRelay  - builds the TLS configuration once, then loops  *)
(*                          over connectBackAndRelay, sleeping between     *)
(*                          iterations when reconnectAfter is not zero;    *)
(*   connectBackAndRelay  - dial, yamux server session, socks5 server,     *)
(*                          Serve, with the deferred Close calls;          *)
(*   clientTLSConfig      - the switch over (insecure, connectionKey).     *)
(* Every Go statement that changes state the properties talk about is one  *)
(* step of the single goroutine, whose position is pc.                     *)
(***************************************************************************)
EXTENDS Integers, Sequences, FiniteSets, TLC

VARIABLES
    connectBackAddr,  \* argument of runRemoteProxyRelay
    connectionKey,    \* argument of runRemoteProxyRelay
    timeout,          \* argument of runRemoteProxyRelay
    reconnectAfter,   \* argument of runRemoteProxyRelay
    insecure,         \* argument of runRemoteProxyRelay
    pc,               \* position of the goroutine
    tlsConfig,        \* <<>> (nil) or <<cfg>>
    tlsBranch,        \* branch of the switch that clientTLSConfig took
    tlsCalls,         \* calls clientTLSConfig made to the key package
    tlsBuilds,        \* number of clientTLSConfig calls made so far
    err,              \* err of connectBackAndRelay / of the loop body
    result,           \* value returned by runRemoteProxyRelay
    conn,             \* local conn: index into conns, 0 = not set
    yamuxServer,      \* local yamuxServer: index into sessions, 0 = not set
    socksServer,      \* local socksServer: TRUE once socks5.New succeeded
    defers,           \* deferred calls of the running connectBackAndRelay
    conns,            \* every connection ever dialed: "open" | "closed"
    sessions,         \* every yamux session ever created
    dialLog,          \* arguments of every tls.DialWithDialer call
    sleeps,           \* argument of every time.Sleep call
    relayResults,     \* value returned by every connectBackAndRelay call
    output            \* lines printed with fmt.Printf

vars == <<connectBackAddr, connectionKey, timeout, reconnectAfter, insecure,
          pc, tlsConfig, tlsBranch, tlsCalls, tlsBuilds, err, result, conn,
          yamuxServer, socksServer, defers, conns, sessions, dialLog, sleeps,
          relayResults, output>>

args == <<connectBackAddr, connectionKey, timeout, reconnectAfter, insecure>>

----------------------------------------------------------------------------
(* Bounds and input domains *)

MaxDials == 3

Addrs == {"listener:4080", "10.0.0.1:9443"}

Timeouts == {1, 5}

Durations == {-1, 0, 1, 2}

\* "" is the absent key; "goodkey" parses and configures; "malformed" does
\* not parse; "unusable" parses but ClientTLSConfig rejects it.
Keys == {"", "goodkey", "malformed", "unusable"}

DialFailures == {"timeout", "handshake"}

----------------------------------------------------------------------------
(* Errors: nil is the empty sequence, fmt.Errorf("p: %w", e) prepends p *)

NoErr == <<>>

Wrap(prefix, e) == <<prefix>> \o e

----------------------------------------------------------------------------
(* The key package (not part of relay.go) *)

WellFormedKeys == {"goodkey", "unusable"}

\* ParseConnectionKey: identity material of a well-formed key, else an error.
ParseConnectionKey(key) ==
    IF key \in WellFormedKeys
    THEN [key |-> <<key>>, err |-> NoErr]
    ELSE [key |-> <<>>, err |-> <<"invalid connection key">>]

\* ClientTLSConfig: a verified configuration that presents the client
\* identity of the key and expects the server identity of the key.
ClientTLSConfig(key) ==
    IF key = <<"goodkey">>
    THEN [cfg |-> <<[Certificates |-> key,
                     InsecureSkipVerify |-> FALSE,
                     ServerName |-> "resocks-server"]>>,
          err |-> NoErr]
    ELSE [cfg |-> <<>>, err |-> <<"invalid key material">>]

----------------------------------------------------------------------------
(* clientTLSConfig, relay.go:107-142 *)

\* The switch: the case expressions are tried in source order, default is
\* taken when none of them is true.
TLSCaseNoRequired(key, insec) ==
    CASE insec /\ key = "" -> "insecureNoKey"
      [] insec /\ key # "" -> "insecureWithKey"
      [] OTHER -> "default"

TLSCase(key, insec) ==
    CASE ~insec /\ key = "" -> "required"
      [] insec /\ key = "" -> "insecureNoKey"
      [] insec /\ key # "" -> "insecureWithKey"
      [] OTHER -> "default"

\* Body of the default branch (110-120) and first half of the third case
\* (127-135): parse the key, then configure TLS from it.
ParseAndConfigure(key) ==
    LET parsed == ParseConnectionKey(key) IN
    IF parsed.err # NoErr
    THEN [cfg |-> <<>>, err |-> Wrap("parse connection key", parsed.err),
          calls |-> <<"ParseConnectionKey">>]
    ELSE LET made == ClientTLSConfig(parsed.key) IN
         IF made.err # NoErr
         THEN [cfg |-> <<>>, err |-> Wrap("configure TLS", made.err),
               calls |-> <<"ParseConnectionKey", "ClientTLSConfig">>]
         ELSE [cfg |-> made.cfg, err |-> NoErr,
               calls |-> <<"ParseConnectionKey", "ClientTLSConfig">>]

clientTLSConfigKeepsServerName(key, insec) ==
    LET branch == TLSCase(key, insec) IN
    CASE branch = "required" ->
           [cfg |-> <<>>, err |-> <<"connection key is required">>,
            calls |-> <<>>]
      [] branch = "insecureNoKey" ->
           [cfg |-> <<[Certificates |-> <<>>,
                       InsecureSkipVerify |-> TRUE,
                       ServerName |-> ""]>>,
            err |-> NoErr, calls |-> <<>>]
      [] branch = "insecureWithKey" ->
           LET r == ParseAndConfigure(key) IN
           IF r.err # NoErr THEN r
           ELSE [r EXCEPT !.cfg = <<[r.cfg[1] EXCEPT
                                       !.InsecureSkipVerify = TRUE]>>]
      [] OTHER -> ParseAndConfigure(key)

clientTLSConfigDegrades(key, insec) ==
    LET branch == TLSCase(key, insec) IN
    CASE branch = "required" ->
           [cfg |-> <<>>, err |-> <<"connection key is required">>,
            calls |-> <<>>]
      [] branch = "insecureNoKey" ->
           [cfg |-> <<[Certificates |-> <<>>,
                       InsecureSkipVerify |-> TRUE,
                       ServerName |-> ""]>>,
            err |-> NoErr, calls |-> <<>>]
      [] branch = "insecureWithKey" ->
           LET r == ParseAndConfigure(key) IN
           IF r.err # NoErr
           THEN [cfg |-> <<[Certificates |-> <<>>,
                            InsecureSkipVerify |-> TRUE,
                            ServerName |-> ""]>>,
                 err |-> NoErr, calls |-> r.calls]
           ELSE [r EXCEPT !.cfg = <<[r.cfg[1] EXCEPT
                                       !.InsecureSkipVerify = TRUE,
                                       !.ServerName = ""]>>]
      [] OTHER -> ParseAndConfigure(key)

clientTLSConfig(key, insec) ==
    LET branch == TLSCase(key, insec) IN
    CASE branch = "required" ->
           [cfg |-> <<>>, err |-> <<"connection key is required">>,
            calls |-> <<>>]
      [] branch = "insecureNoKey" ->
           [cfg |-> <<[Certificates |-> <<>>,
                       InsecureSkipVerify |-> TRUE,
                       ServerName |-> ""]>>,
            err |-> NoErr, calls |-> <<>>]
      [] branch = "insecureWithKey" ->
           LET r == ParseAndConfigure(key) IN
           IF r.err # NoErr THEN r
           ELSE [r EXCEPT !.cfg = <<[r.cfg[1] EXCEPT
                                       !.InsecureSkipVerify = TRUE,
                                       !.ServerName = ""]>>]
      [] OTHER -> ParseAndConfigure(key)

----------------------------------------------------------------------------
(* Initial state: runRemoteProxyRelay is called with the flag values *)

Init ==
    /\ connectBackAddr \in Addrs
    /\ connectionKey \in Keys
    /\ timeout \in Timeouts
    /\ reconnectAfter \in Durations
    /\ insecure \in BOOLEAN
    /\ pc = "build"
    /\ tlsConfig = <<>>
    /\ tlsBranch = "none"
    /\ tlsCalls = <<>>
    /\ tlsBuilds = 0
    /\ err = NoErr
    /\ result = NoErr
    /\ conn = 0
    /\ yamuxServer = 0
    /\ socksServer = FALSE
    /\ defers = <<>>
    /\ conns = <<>>
    /\ sessions = <<>>
    /\ dialLog = <<>>
    /\ sleeps = <<>>
    /\ relayResults = <<>>
    /\ output = <<>>

----------------------------------------------------------------------------
(* runRemoteProxyRelay, relay.go:52-55 *)

BuildTLSConfigIgnoresErr ==
    /\ pc = "build"
    /\ LET r == clientTLSConfig(connectionKey, insecure) IN
       /\ tlsBranch' = TLSCase(connectionKey, insecure)
       /\ tlsCalls' = r.calls
       /\ tlsBuilds' = tlsBuilds + 1
       /\ tlsConfig' = r.cfg
       /\ pc' = "dial"
       /\ UNCHANGED result
    /\ UNCHANGED <<args, err, conn, yamuxServer, socksServer, defers, conns,
                   sessions, dialLog, sleeps, relayResults, output>>

BuildTLSConfig ==
    /\ pc = "build"
    /\ LET r == clientTLSConfig(connectionKey, insecure) IN
       /\ tlsBranch' = TLSCase(connectionKey, insecure)
       /\ tlsCalls' = r.calls
       /\ tlsBuilds' = tlsBuilds + 1
       /\ IF r.err # NoErr
          THEN /\ result' = Wrap("build TLS config", r.err)
               /\ pc' = "returned"
               /\ UNCHANGED tlsConfig
          ELSE /\ tlsConfig' = r.cfg
               /\ pc' = "dial"
               /\ UNCHANGED result
    /\ UNCHANGED <<args, err, conn, yamuxServer, socksServer, defers, conns,
                   sessions, dialLog, sleeps, relayResults, output>>

----------------------------------------------------------------------------
(* connectBackAndRelay, relay.go:77-105 *)

DialUnwrapped ==
    /\ pc = "dial"
    /\ Len(dialLog) < MaxDials
    /\ dialLog' = Append(dialLog, [addr |-> connectBackAddr,
                                   timeout |-> timeout,
                                   cfg |-> tlsConfig])
    /\ \E outcome \in {"ok"} \cup DialFailures :
         IF outcome = "ok"
         THEN /\ conns' = Append(conns, "open")
              /\ conn' = Len(conns) + 1
              /\ err' = NoErr
              /\ pc' = "connected"
         ELSE /\ err' = <<outcome>>
              /\ pc' = "unwind"
              /\ UNCHANGED <<conns, conn>>
    /\ UNCHANGED <<args, tlsConfig, tlsBranch, tlsCalls, tlsBuilds, result, yamuxServer,
                   socksServer, defers, sessions, sleeps, relayResults,
                   output>>

DialRetries ==
    /\ pc = "dial"
    /\ Len(dialLog) < MaxDials
    /\ dialLog' = Append(dialLog, [addr |-> connectBackAddr,
                                   timeout |-> timeout,
                                   cfg |-> tlsConfig])
    /\ \E outcome \in {"ok"} \cup DialFailures :
         IF outcome = "ok"
         THEN /\ conns' = Append(conns, "open")
              /\ conn' = Len(conns) + 1
              /\ err' = NoErr
              /\ pc' = "connected"
         ELSE /\ err' = Wrap("dial", <<outcome>>)
              /\ pc' = "dial"
              /\ UNCHANGED <<conns, conn>>
    /\ UNCHANGED <<args, tlsConfig, tlsBranch, tlsCalls, tlsBuilds, result, yamuxServer,
                   socksServer, defers, sessions, sleeps, relayResults,
                   output>>

\* 78-81: one tls.DialWithDialer call; on failure return "dial: ...".
Dial ==
    /\ pc = "dial"
    /\ Len(dialLog) < MaxDials
    /\ dialLog' = Append(dialLog, [addr |-> connectBackAddr,
                                   timeout |-> timeout,
                                   cfg |-> tlsConfig])
    /\ \E outcome \in {"ok"} \cup DialFailures :
         IF outcome = "ok"
         THEN /\ conns' = Append(conns, "open")
              /\ conn' = Len(conns) + 1
              /\ err' = NoErr
              /\ pc' = "connected"
         ELSE /\ err' = Wrap("dial", <<outcome>>)
              /\ pc' = "unwind"
              /\ UNCHANGED <<conns, conn>>
    /\ UNCHANGED <<args, tlsConfig, tlsBranch, tlsCalls, tlsBuilds, result, yamuxServer,
                   socksServer, defers, sessions, sleeps, relayResults,
                   output>>

\* 83-85: print the remote address, defer conn.Close().
ConnectedNoDefer ==
    /\ pc = "connected"
    /\ output' = Append(output, [kind |-> "connected",
                                 arg |-> <<connectBackAddr>>])
    /\ pc' = "yamux"
    /\ UNCHANGED <<args, tlsConfig, tlsBranch, tlsCalls, tlsBuilds, err, result, conn,
                   yamuxServer, socksServer, defers, conns, sessions, dialLog,
                   sleeps, relayResults>>

Connected ==
    /\ pc = "connected"
    /\ output' = Append(output, [kind |-> "connected",
                                 arg |-> <<connectBackAddr>>])
    /\ defers' = Append(defers, [close |-> "conn", id |-> conn])
    /\ pc' = "yamux"
    /\ UNCHANGED <<args, tlsConfig, tlsBranch, tlsCalls, tlsBuilds, err, result, conn,
                   yamuxServer, socksServer, conns, sessions, dialLog, sleeps,
                   relayResults>>

\* 87-92: yamux.Server over conn; on failure return, else defer its Close.
YamuxServerNoDefer ==
    /\ pc = "yamux"
    /\ \E ok \in BOOLEAN :
         IF ok
         THEN /\ sessions' = Append(sessions, [state |-> "open",
                                               conn |-> conn])
              /\ yamuxServer' = Len(sessions) + 1
              /\ pc' = "socks"
              /\ UNCHANGED <<err, defers>>
         ELSE /\ err' = Wrap("initialize multiplexer", <<"invalid config">>)
              /\ pc' = "unwind"
              /\ UNCHANGED <<sessions, yamuxServer, defers>>
    /\ UNCHANGED <<args, tlsConfig, tlsBranch, tlsCalls, tlsBuilds, result, conn,
                   socksServer, conns, dialLog, sleeps, relayResults, output>>

YamuxServer ==
    /\ pc = "yamux"
    /\ \E ok \in BOOLEAN :
         IF ok
         THEN /\ sessions' = Append(sessions, [state |-> "open",
                                               conn |-> conn])
              /\ yamuxServer' = Len(sessions) + 1
              /\ defers' = Append(defers, [close |-> "yamux",
                                           id |-> Len(sessions) + 1])
              /\ pc' = "socks"
              /\ UNCHANGED err
         ELSE /\ err' = Wrap("initialize multiplexer", <<"invalid config">>)
              /\ pc' = "unwind"
              /\ UNCHANGED <<sessions, yamuxServer, defers>>
    /\ UNCHANGED <<args, tlsConfig, tlsBranch, tlsCalls, tlsBuilds, result, conn,
                   socksServer, conns, dialLog, sleeps, relayResults, output>>

\* 94-97: socks5.New; on failure return "initialize socks5 server: ...".
SocksNew ==
    /\ pc = "socks"
    /\ \E ok \in BOOLEAN :
         IF ok
         THEN /\ socksServer' = TRUE
              /\ pc' = "serve"
              /\ UNCHANGED err
         ELSE /\ err' = Wrap("initialize socks5 server", <<"invalid config">>)
              /\ pc' = "unwind"
              /\ UNCHANGED socksServer
    /\ UNCHANGED <<args, tlsConfig, tlsBranch, tlsCalls, tlsBuilds, result, conn,
                   yamuxServer, defers, conns, sessions, dialLog, sleeps,
                   relayResults, output>>

\* 99-104: Serve blocks until it returns nil or an error.
ServeOutcomes == {NoErr, <<"session shutdown">>}

Serve ==
    /\ pc = "serve"
    /\ \E e \in ServeOutcomes :
         err' = IF e # NoErr THEN Wrap("socks5 server", e) ELSE NoErr
    /\ pc' = "unwind"
    /\ UNCHANGED <<args, tlsConfig, tlsBranch, tlsCalls, tlsBuilds, result, conn,
                   yamuxServer, socksServer, defers, conns, sessions, dialLog,
                   sleeps, relayResults, output>>

\* Effect of one deferred Close call on the connections and the sessions.
CloseConn(id) == [conns EXCEPT ![id] = "closed"]

CloseSession(id) == [sessions EXCEPT ![id].state = "closed"]

\* 85, 92: at a return the deferred calls run last-registered first.
RunDeferredFifo ==
    /\ pc = "unwind"
    /\ defers # <<>>
    /\ LET d == Head(defers) IN
       /\ defers' = Tail(defers)
       /\ IF d.close = "conn"
          THEN conns' = CloseConn(d.id) /\ UNCHANGED sessions
          ELSE sessions' = CloseSession(d.id) /\ UNCHANGED conns
    /\ UNCHANGED <<args, pc, tlsConfig, tlsBranch, tlsCalls, tlsBuilds, err, result,
                   conn, yamuxServer, socksServer, dialLog, sleeps,
                   relayResults, output>>

RunDeferred ==
    /\ pc = "unwind"
    /\ defers # <<>>
    /\ LET d == defers[Len(defers)] IN
       /\ defers' = SubSeq(defers, 1, Len(defers) - 1)
       /\ IF d.close = "conn"
          THEN conns' = CloseConn(d.id) /\ UNCHANGED sessions
          ELSE sessions' = CloseSession(d.id) /\ UNCHANGED conns
    /\ UNCHANGED <<args, pc, tlsConfig, tlsBranch, tlsCalls, tlsBuilds, err, result,
                   conn, yamuxServer, socksServer, dialLog, sleeps,
                   relayResults, output>>

\* The call at line 58 returns once no deferred call is left.
RelayReturn ==
    /\ pc = "unwind"
    /\ defers = <<>>
    /\ relayResults' = Append(relayResults, err)
    /\ conn' = 0
    /\ yamuxServer' = 0
    /\ socksServer' = FALSE
    /\ pc' = "checkErr"
    /\ UNCHANGED <<args, tlsConfig, tlsBranch, tlsCalls, tlsBuilds, err, result, defers,
                   conns, sessions, dialLog, sleeps, output>>

----------------------------------------------------------------------------
(* The loop of runRemoteProxyRelay, relay.go:57-74 *)

\* 59-65: an error is returned when reconnectAfter is 0, printed otherwise.
CheckErrNeverReturns ==
    /\ pc = "checkErr"
    /\ IF err # NoErr
       THEN /\ output' = Append(output, [kind |-> "error", arg |-> err])
            /\ pc' = "checkReconnect"
            /\ UNCHANGED result
       ELSE /\ pc' = "checkReconnect"
            /\ UNCHANGED <<result, output>>
    /\ UNCHANGED <<args, tlsConfig, tlsBranch, tlsCalls, tlsBuilds, err, conn,
                   yamuxServer, socksServer, defers, conns, sessions, dialLog,
                   sleeps, relayResults>>

CheckErrSilent ==
    /\ pc = "checkErr"
    /\ IF err # NoErr /\ reconnectAfter = 0
       THEN /\ result' = err
            /\ pc' = "returned"
            /\ UNCHANGED output
       ELSE /\ pc' = "checkReconnect"
            /\ UNCHANGED <<result, output>>
    /\ UNCHANGED <<args, tlsConfig, tlsBranch, tlsCalls, tlsBuilds, err, conn,
                   yamuxServer, socksServer, defers, conns, sessions, dialLog,
                   sleeps, relayResults>>

CheckErrPrintsFatal ==
    /\ pc = "checkErr"
    /\ IF err # NoErr
       THEN /\ output' = Append(output, [kind |-> "error", arg |-> err])
            /\ IF reconnectAfter = 0
               THEN result' = err /\ pc' = "returned"
               ELSE pc' = "checkReconnect" /\ UNCHANGED result
       ELSE /\ pc' = "checkReconnect"
            /\ UNCHANGED <<result, output>>
    /\ UNCHANGED <<args, tlsConfig, tlsBranch, tlsCalls, tlsBuilds, err, conn,
                   yamuxServer, socksServer, defers, conns, sessions, dialLog,
                   sleeps, relayResults>>

CheckErrNonPositive ==
    /\ pc = "checkErr"
    /\ IF err # NoErr
       THEN IF reconnectAfter <= 0
            THEN /\ result' = err
                 /\ pc' = "returned"
                 /\ UNCHANGED output
            ELSE /\ output' = Append(output, [kind |-> "error", arg |-> err])
                 /\ pc' = "checkReconnect"
                 /\ UNCHANGED result
       ELSE /\ pc' = "checkReconnect"
            /\ UNCHANGED <<result, output>>
    /\ UNCHANGED <<args, tlsConfig, tlsBranch, tlsCalls, tlsBuilds, err, conn,
                   yamuxServer, socksServer, defers, conns, sessions, dialLog,
                   sleeps, relayResults>>

CheckErr ==
    /\ pc = "checkErr"
    /\ IF err # NoErr
       THEN IF reconnectAfter = 0
            THEN /\ result' = err
                 /\ pc' = "returned"
                 /\ UNCHANGED output
            ELSE /\ output' = Append(output, [kind |-> "error", arg |-> err])
                 /\ pc' = "checkReconnect"
                 /\ UNCHANGED result
       ELSE /\ pc' = "checkReconnect"
            /\ UNCHANGED <<result, output>>
    /\ UNCHANGED <<args, tlsConfig, tlsBranch, tlsCalls, tlsBuilds, err, conn,
                   yamuxServer, socksServer, defers, conns, sessions, dialLog,
                   sleeps, relayResults>>

\* 67-71: return nil when reconnectAfter is 0, else print "reconnecting".
CheckReconnectInverted ==
    /\ pc = "checkReconnect"
    /\ IF reconnectAfter # 0
       THEN /\ result' = NoErr
            /\ pc' = "returned"
            /\ UNCHANGED output
       ELSE /\ output' = Append(output, [kind |-> "reconnecting",
                                         arg |-> <<reconnectAfter>>])
            /\ pc' = "sleep"
            /\ UNCHANGED result
    /\ UNCHANGED <<args, tlsConfig, tlsBranch, tlsCalls, tlsBuilds, err, conn,
                   yamuxServer, socksServer, defers, conns, sessions, dialLog,
                   sleeps, relayResults>>

CheckReconnectOnErrOnly ==
    /\ pc = "checkReconnect"
    /\ IF reconnectAfter = 0 \/ err = NoErr
       THEN /\ result' = NoErr
            /\ pc' = "returned"
            /\ UNCHANGED output
       ELSE /\ output' = Append(output, [kind |-> "reconnecting",
                                         arg |-> <<reconnectAfter>>])
            /\ pc' = "sleep"
            /\ UNCHANGED result
    /\ UNCHANGED <<args, tlsConfig, tlsBranch, tlsCalls, tlsBuilds, err, conn,
                   yamuxServer, socksServer, defers, conns, sessions, dialLog,
                   sleeps, relayResults>>

CheckReconnect ==
    /\ pc = "checkReconnect"
    /\ IF reconnectAfter = 0
       THEN /\ result' = NoErr
            /\ pc' = "returned"
            /\ UNCHANGED output
       ELSE /\ output' = Append(output, [kind |-> "reconnecting",
                                         arg |-> <<reconnectAfter>>])
            /\ pc' = "sleep"
            /\ UNCHANGED result
    /\ UNCHANGED <<args, tlsConfig, tlsBranch, tlsCalls, tlsBuilds, err, conn,
                   yamuxServer, socksServer, defers, conns, sessions, dialLog,
                   sleeps, relayResults>>

\* 73: time.Sleep(reconnectAfter), then the next iteration.
SleepBackoff ==
    /\ pc = "sleep"
    /\ sleeps' = Append(sleeps, reconnectAfter * (Len(sleeps) + 1))
    /\ err' = NoErr
    /\ pc' = "dial"
    /\ UNCHANGED <<args, tlsConfig, tlsBranch, tlsCalls, tlsBuilds, result, conn,
                   yamuxServer, socksServer, defers, conns, sessions, dialLog,
                   relayResults, output>>

SleepRebuilds ==
    /\ pc = "sleep"
    /\ sleeps' = Append(sleeps, reconnectAfter)
    /\ err' = NoErr
    /\ pc' = "build"
    /\ UNCHANGED <<args, tlsConfig, tlsBranch, tlsCalls, tlsBuilds, result, conn,
                   yamuxServer, socksServer, defers, conns, sessions, dialLog,
                   relayResults, output>>

Sleep ==
    /\ pc = "sleep"
    /\ sleeps' = Append(sleeps, reconnectAfter)
    /\ err' = NoErr
    /\ pc' = "dial"
    /\ UNCHANGED <<args, tlsConfig, tlsBranch, tlsCalls, tlsBuilds, result, conn,
                   yamuxServer, socksServer, defers, conns, sessions, dialLog,
                   relayResults, output>>

----------------------------------------------------------------------------

Next ==
    \/ BuildTLSConfig
    \/ Dial
    \/ Connected
    \/ YamuxServer
    \/ SocksNew
    \/ Serve
    \/ RunDeferred
    \/ RelayReturn
    \/ CheckErr
    \/ CheckReconnect
    \/ Sleep

Spec == Init /\ [][Next]_vars

\* The goroutine runs on: the dial is bounded by its timeout, the sleep by
\* its duration, and Serve is taken to return.
FairSpec == Init /\ [][Next]_vars /\ WF_vars(Next)

----------------------------------------------------------------------------
(* Derived quantities used by the properties *)

Last(seq) == seq[Len(seq)]

OpenConns == {i \in 1..Len(conns) : conns[i] = "open"}

OpenSessions == {j \in 1..Len(sessions) : sessions[j].state = "open"}

Failures == Cardinality({i \in 1..Len(relayResults) : relayResults[i] # NoErr})

Lines(kind) == Cardinality({i \in 1..Len(output) : output[i].kind = kind})

LoopEntered == pc # "build" /\ tlsConfig # <<>>

----------------------------------------------------------------------------
(* Properties *)

\* C1: with reconnectAfter = 0 the first failure of connectBackAndRelay is
\* followed only by the return of that same error: the loop goes from the
\* error check straight to the return, at most one dial is ever made and no
\* sleep occurs.
C1_ReconnectTermination ==
    reconnectAfter = 0 =>
        /\ Len(dialLog) <= 1
        /\ Len(relayResults) <= 1
        /\ sleeps = <<>>
        /\ Lines("reconnecting") = 0
        /\ \A i \in 1..Len(relayResults) :
             relayResults[i] # NoErr =>
                /\ pc \in {"checkErr", "returned"}
                /\ pc = "returned" => result = relayResults[i]

C1_Witness ==
    /\ reconnectAfter = 0
    /\ pc = "returned"
    /\ Len(dialLog) = 1
    /\ Len(relayResults) = 1
    /\ relayResults[1] # NoErr
    /\ result = relayResults[1]
    /\ result[1] = "socks5 server"

\* C2: with reconnectAfter > 0 the loop never returns once it is entered;
\* every failure of connectBackAndRelay is printed exactly once (N failures,
\* N error lines), and every dial but the first is preceded by exactly one
\* sleep, so failure N is followed by a sleep and dial N+1.
C2_ReconnectPersistence ==
    (reconnectAfter > 0 /\ LoopEntered) =>
        /\ pc # "returned"
        /\ Lines("error") =
             Failures - (IF pc = "checkErr" /\ err # NoErr THEN 1 ELSE 0)
        /\ Len(sleeps) = Len(dialLog) - (IF pc = "dial" THEN 0 ELSE 1)
        /\ Len(relayResults) =
             Len(dialLog) - (IF pc \in {"dial", "checkErr", "checkReconnect",
                                        "sleep"} THEN 0 ELSE 1)

C2_Witness ==
    /\ reconnectAfter > 0
    /\ Len(relayResults) = 2
    /\ \A i \in 1..2 : relayResults[i] # NoErr /\ relayResults[i][1] = "dial"
    /\ Lines("error") = 2
    /\ Len(sleeps) = 2
    /\ Len(dialLog) = 3

\* C3: at most one connection and at most one multiplexed session are open
\* in any state, and whenever a dial is about to begin, the loop sleeps or
\* has returned, every connection and session of the earlier iterations is
\* closed.
C3_AtMostOneSession ==
    /\ Cardinality(OpenConns) <= 1
    /\ Cardinality(OpenSessions) <= 1
    /\ pc \in {"dial", "sleep", "returned"} =>
          OpenConns = {} /\ OpenSessions = {}

C3_Witness ==
    /\ pc = "serve"
    /\ Len(conns) = 2
    /\ Len(sessions) = 2
    /\ OpenConns = {2}
    /\ OpenSessions = {2}

\* C4: when connectBackAndRelay returns after a successful dial, whatever
\* the exit path, the connection it dialed is closed and so is every session
\* created over it; a session was created on the paths past yamux.Server.
C4_SessionCleanup ==
    (pc = "checkErr" /\ (err = NoErr \/ err[1] # "dial")) =>
        /\ conns # <<>>
        /\ Last(conns) = "closed"
        /\ \A j \in 1..Len(sessions) :
             sessions[j].conn = Len(conns) => sessions[j].state = "closed"
        /\ (err = NoErr \/ err[1] # "initialize multiplexer") =>
             /\ sessions # <<>>
             /\ Last(sessions) = [state |-> "closed", conn |-> Len(conns)]
        /\ defers = <<>>

C4_Witness ==
    /\ pc = "checkErr"
    /\ err # NoErr
    /\ err[1] = "initialize socks5 server"
    /\ Last(conns) = "closed"
    /\ Last(sessions) = [state |-> "closed", conn |-> Len(conns)]

\* C5: a session is created over a connection that already exists and is
\* open, and it is closed before that connection is: no session is open
\* while its connection is closed, and a step that closes a connection
\* finds every session over it closed.
C5_OrderInv ==
    \A j \in 1..Len(sessions) :
        /\ sessions[j].conn \in 1..Len(conns)
        /\ sessions[j].state = "open" => conns[sessions[j].conn] = "open"

C5_ReverseOrderClose ==
    [][/\ C5_OrderInv'
       /\ \A j \in 1..Len(sessions') :
            j > Len(sessions) =>
               /\ sessions'[j].conn \in 1..Len(conns)
               /\ conns[sessions'[j].conn] = "open"
       /\ \A i \in 1..Len(conns) :
            (conns[i] = "open" /\ conns'[i] = "closed") =>
               \A j \in 1..Len(sessions) :
                  sessions[j].conn = i => sessions[j].state = "closed"]_vars

C5_Witness ==
    /\ pc = "unwind"
    /\ sessions # <<>>
    /\ Last(sessions).state = "closed"
    /\ conns[Last(sessions).conn] = "open"

\* C6: once clientTLSConfig has run, the outcome is the one the decision
\* table gives for (insecure, key present), for the absent and the
\* well-formed key: secure without key fails; secure with key presents the
\* client identity and verifies the server; insecure without key presents no
\* identity and skips verification; insecure with key presents the identity,
\* skips verification and has an empty ServerName.  Each input takes exactly
\* the branch of its row, the default branch exactly when insecure is false
\* and the key is not empty.
C6_DecisionTable ==
    pc # "build" =>
        /\ tlsBranch = "default" <=> (~insecure /\ connectionKey # "")
        /\ tlsBranch = "required" <=> (~insecure /\ connectionKey = "")
        /\ tlsBranch = "insecureNoKey" <=> (insecure /\ connectionKey = "")
        /\ tlsBranch = "insecureWithKey" <=> (insecure /\ connectionKey # "")
        /\ (~insecure /\ connectionKey = "") =>
              /\ tlsConfig = <<>>
              /\ pc = "returned"
              /\ result # NoErr
        /\ (~insecure /\ connectionKey = "goodkey") =>
              /\ Len(tlsConfig) = 1
              /\ tlsConfig[1].Certificates = <<"goodkey">>
              /\ tlsConfig[1].InsecureSkipVerify = FALSE
              /\ tlsConfig[1].ServerName # ""
        /\ (insecure /\ connectionKey = "") =>
              /\ Len(tlsConfig) = 1
              /\ tlsConfig[1].Certificates = <<>>
              /\ tlsConfig[1].InsecureSkipVerify = TRUE
        /\ (insecure /\ connectionKey = "goodkey") =>
              /\ Len(tlsConfig) = 1
              /\ tlsConfig[1].Certificates = <<"goodkey">>
              /\ tlsConfig[1].InsecureSkipVerify = TRUE
              /\ tlsConfig[1].ServerName = ""

C6_Witness ==
    /\ pc = "dial"
    /\ insecure
    /\ connectionKey = "goodkey"
    /\ tlsBranch = "insecureWithKey"
    /\ tlsConfig[1].Certificates = <<"goodkey">>
    /\ tlsConfig[1].ServerName = ""

\* C7: with insecure false and an empty key, whatever the timeout, the
\* reconnect delay and the address, runRemoteProxyRelay has returned the
\* "connection key is required" error as soon as the configuration step has
\* run, and neither ParseConnectionKey nor ClientTLSConfig was called.
C7_KeyRequired ==
    (pc # "build" /\ ~insecure /\ connectionKey = "") =>
        /\ pc = "returned"
        /\ result = <<"build TLS config", "connection key is required">>
        /\ tlsCalls = <<>>
        /\ tlsConfig = <<>>

C7_Witness ==
    /\ pc = "returned"
    /\ ~insecure
    /\ connectionKey = ""
    /\ reconnectAfter = 2
    /\ timeout = 5
    /\ result = <<"build TLS config", "connection key is required">>

\* C8: when clientTLSConfig fails, runRemoteProxyRelay returns that error
\* wrapped, whatever reconnectAfter is, having dialed nothing, slept never,
\* created no connection or session and printed nothing; and a returned
\* configuration error is never preceded by a dial.
C8_ConfigErrorsFatal ==
    /\ (pc # "build" /\ clientTLSConfig(connectionKey, insecure).err # NoErr) =>
          /\ pc = "returned"
          /\ result = Wrap("build TLS config",
                           clientTLSConfig(connectionKey, insecure).err)
          /\ dialLog = <<>>
          /\ sleeps = <<>>
          /\ conns = <<>>
          /\ sessions = <<>>
          /\ relayResults = <<>>
          /\ output = <<>>
    /\ (pc = "returned" /\ result # NoErr /\ result[1] = "build TLS config") =>
          dialLog = <<>>

C8_Witness ==
    /\ pc = "returned"
    /\ reconnectAfter > 0
    /\ connectionKey = "malformed"
    /\ result = <<"build TLS config", "parse connection key",
                  "invalid connection key">>
    /\ dialLog = <<>>

C10_SleepOnlyAfterFailure ==
    pc = "sleep" => Last(relayResults) # NoErr

\* C10 as amended: the loop sleeps only when reconnectAfter is not 0; with
\* reconnectAfter = 0 a clean return of connectBackAndRelay ends the loop
\* with nil, without a sleep or a second dial; with reconnectAfter # 0 the
\* loop never returns and sleeps once after every return of
\* connectBackAndRelay, clean or failed.
C10_CleanReturn ==
    /\ pc = "sleep" => reconnectAfter # 0
    /\ (reconnectAfter = 0 /\ relayResults # <<>> /\ Last(relayResults) = NoErr) =>
          /\ pc \in {"checkErr", "checkReconnect", "returned"}
          /\ pc = "returned" => result = NoErr
          /\ Len(dialLog) = 1
          /\ sleeps = <<>>
    /\ (reconnectAfter # 0 /\ LoopEntered) =>
          /\ pc # "returned"
          /\ Len(sleeps) =
               Len(relayResults) - (IF pc \in {"checkErr", "checkReconnect",
                                               "sleep"} THEN 1 ELSE 0)

C10_Witness ==
    /\ pc = "dial"
    /\ reconnectAfter # 0
    /\ relayResults = <<NoErr>>
    /\ Len(sleeps) = 1
    /\ Lines("error") = 0

----------------------------------------------------------------------------
(* The states of the relay loop (section 4.5 of the specification) *)

\* While connectBackAndRelay unwinds and the loop examines its result, the
\* loop is still in the state the call failed or ended in.
DialFailed == err # NoErr /\ err[1] = "dial"

LoopState ==
    CASE pc = "build" -> "Idle"
      [] pc = "dial" -> "Dialing"
      [] pc \in {"connected", "yamux", "socks", "serve"} -> "Bridging"
      [] pc \in {"unwind", "checkErr", "checkReconnect"} ->
           IF DialFailed THEN "Dialing" ELSE "Bridging"
      [] pc = "sleep" -> "Sleeping"
      [] OTHER -> IF result = NoErr THEN "Done" ELSE "Failed"

C11_ListedTransitions ==
    {<<"Idle", "Dialing">>, <<"Dialing", "Bridging">>, <<"Dialing", "Failed">>,
     <<"Bridging", "Sleeping">>, <<"Bridging", "Failed">>,
     <<"Bridging", "Done">>, <<"Sleeping", "Dialing">>}

\* C11 as stated: once the loop is entered, every change of the loop state
\* is one of the seven listed transitions.
C11_OnlyListedTransitions ==
    [][(LoopEntered' /\ LoopState' # LoopState) =>
          <<LoopState, LoopState'>> \in C11_ListedTransitions]_vars

\* C11 as amended: every change of the loop state is one of the seven
\* listed transitions or Dialing -> Sleeping, which is taken exactly when
\* the dial fails and reconnectAfter is not 0 (Dialing -> Failed exactly
\* when it fails and reconnectAfter is 0); Done and Failed are left by no
\* step.
C11_Transitions ==
    [][/\ (LoopEntered' /\ LoopState' # LoopState) =>
             /\ <<LoopState, LoopState'>> \in
                   C11_ListedTransitions \cup {<<"Dialing", "Sleeping">>}
             /\ <<LoopState, LoopState'>> = <<"Dialing", "Sleeping">> =>
                   DialFailed /\ reconnectAfter # 0
             /\ <<LoopState, LoopState'>> = <<"Dialing", "Failed">> =>
                   DialFailed /\ reconnectAfter = 0
       /\ pc = "returned" => pc' = "returned" /\ result' = result]_vars

C11_Witness ==
    /\ pc = "sleep"
    /\ LoopState = "Sleeping"
    /\ Last(relayResults) # NoErr
    /\ Last(relayResults)[1] = "dial"
    /\ conns = <<>>

\* C12: with reconnectAfter # 0 every time.Sleep call is given exactly
\* reconnectAfter, however many iterations have failed or ended before it,
\* the "reconnecting" lines announce that same value, and exactly one sleep
\* lies between two consecutive dials.
C12_ConstantDelay ==
    (reconnectAfter # 0 /\ LoopEntered) =>
        /\ \A i \in 1..Len(sleeps) : sleeps[i] = reconnectAfter
        /\ \A i \in 1..Len(output) :
             output[i].kind = "reconnecting" =>
                output[i].arg = <<reconnectAfter>>
        /\ Len(sleeps) = IF pc = "dial" THEN Len(dialLog)
                         ELSE Len(dialLog) - 1

C12_Witness ==
    /\ reconnectAfter = 2
    /\ sleeps = <<2, 2>>
    /\ Len(dialLog) = 3
    /\ relayResults[1] # NoErr
    /\ relayResults[2] # NoErr
    /\ pc = "serve"

----------------------------------------------------------------------------
(* Stages of the error messages *)

\* The stage each prefix given to fmt.Errorf names (relay.go:54, :80, :89,
\* :96, :101, :112, :117).
StageOfTag(tag) ==
    CASE tag = "parse connection key" -> "parse"
      [] tag \in {"build TLS config", "configure TLS"} -> "config"
      [] tag = "dial" -> "dial"
      [] tag \in {"initialize multiplexer", "initialize socks5 server",
                  "socks5 server"} -> "serve"
      [] OTHER -> "none"

\* The stage at which each underlying failure of the model occurs.
StageOfCause(cause) ==
    CASE cause = "invalid connection key" -> "parse"
      [] cause \in {"connection key is required", "invalid key material"} ->
           "config"
      [] cause \in DialFailures -> "dial"
      [] OTHER -> "serve"

\* The errors runRemoteProxyRelay has returned or printed so far.
Surfaced ==
    {output[i].arg : i \in {k \in 1..Len(output) : output[k].kind = "error"}}
      \cup (IF pc = "returned" /\ result # NoErr THEN {result} ELSE {})

\* C13: every error returned or printed by runRemoteProxyRelay consists of
\* stage prefixes followed by the underlying failure; the prefix next to the
\* failure names the stage at which it occurred (parse, config, dial or
\* serve), and the only outer prefix is that of the configuration step.
C13_WrappedWithStage ==
    \A e \in Surfaced :
        /\ Len(e) >= 2
        /\ StageOfTag(e[Len(e) - 1]) = StageOfCause(Last(e))
        /\ \A i \in 1..(Len(e) - 2) : e[i] = "build TLS config"
        /\ StageOfCause(Last(e)) \in {"parse", "config"} =>
              e[1] = "build TLS config"
        /\ StageOfCause(Last(e)) \in {"dial", "serve"} => Len(e) = 2

C13_Witness ==
    /\ pc = "returned"
    /\ result = <<"dial", "handshake">>
    /\ Lines("error") = 0

\* C14: once clientTLSConfig has run with a non-empty key that does not
\* parse or does not configure, in the insecure as in the secure mode,
\* runRemoteProxyRelay has returned that failure wrapped and no
\* configuration exists, so nothing is ever dialed; with insecure true and
\* an empty key no call into the key package was made and the configuration
\* was built without error.
C14_ParseFailurePropagates ==
    pc # "build" =>
        /\ (connectionKey # "" /\ ParseConnectionKey(connectionKey).err # NoErr) =>
              /\ pc = "returned"
              /\ result = <<"build TLS config", "parse connection key">>
                             \o ParseConnectionKey(connectionKey).err
              /\ tlsConfig = <<>>
              /\ tlsCalls = <<"ParseConnectionKey">>
              /\ dialLog = <<>>
        /\ (connectionKey # "" /\ ParseAndConfigure(connectionKey).err # NoErr) =>
              /\ pc = "returned"
              /\ result = Wrap("build TLS config",
                               ParseAndConfigure(connectionKey).err)
              /\ tlsConfig = <<>>
        /\ (insecure /\ connectionKey = "") =>
              /\ tlsCalls = <<>>
              /\ Len(tlsConfig) = 1
              /\ pc = "returned" => (result = NoErr \/ result[1] # "build TLS config")

C14_Witness ==
    /\ pc = "returned"
    /\ insecure
    /\ connectionKey = "malformed"
    /\ tlsBranch = "insecureWithKey"
    /\ result = <<"build TLS config", "parse connection key",
                  "invalid connection key">>
    /\ tlsConfig = <<>>

\* C15: clientTLSConfig is called exactly once, before the first dial, and
\* every dial of every iteration is given the configuration that call
\* returned, which is still the value of tlsConfig.
C15_ConfigBuiltOnce ==
    /\ tlsBuilds = IF pc = "build" THEN 0 ELSE 1
    /\ dialLog # <<>> => tlsBuilds = 1
    /\ \A i \in 1..Len(dialLog) :
         /\ Len(dialLog[i].cfg) = 1
         /\ dialLog[i].cfg = tlsConfig
         /\ dialLog[i].cfg = dialLog[1].cfg
         /\ dialLog[i].cfg = clientTLSConfig(connectionKey, insecure).cfg
         /\ dialLog[i].addr = connectBackAddr
         /\ dialLog[i].timeout = timeout

C15_Witness ==
    /\ Len(dialLog) = 3
    /\ tlsBuilds = 1
    /\ Len(sleeps) = 2
    /\ relayResults[1] = NoErr
    /\ relayResults[2] # NoErr
    /\ dialLog[3].cfg = dialLog[1].cfg
    /\ dialLog[3].cfg[1].InsecureSkipVerify = FALSE

\* Calls of connectBackAndRelay that have returned after a successful dial.
DialedReturns ==
    Cardinality({i \in 1..Len(relayResults) :
                    relayResults[i] = NoErr \/ relayResults[i][1] # "dial"})

\* C16: there is exactly one dial per call of connectBackAndRelay, and when
\* the dial has failed the call returns the dial error with no connection,
\* session or socks5 server of its own, no "connected" line printed for it,
\* and no deferred Close pending.
C16_OneDialPerIteration ==
    /\ Len(dialLog) =
          Len(relayResults) + (IF pc \in {"connected", "yamux", "socks",
                                          "serve", "unwind"} THEN 1 ELSE 0)
    /\ (pc \in {"unwind", "checkErr"} /\ DialFailed) =>
          /\ err[1] = "dial" /\ Len(err) = 2 /\ err[2] \in DialFailures
          /\ defers = <<>>
          /\ conn = 0
          /\ yamuxServer = 0
          /\ socksServer = FALSE
          /\ Len(conns) = DialedReturns
          /\ Len(sessions) <= DialedReturns
          /\ Lines("connected") = DialedReturns
          /\ OpenConns = {}
          /\ OpenSessions = {}
    /\ (pc = "checkErr" /\ DialFailed) => Last(relayResults) = err

C16_Witness ==
    /\ pc = "checkErr"
    /\ DialFailed
    /\ Len(dialLog) = 2
    /\ relayResults = <<NoErr, <<"dial", "timeout">>>>
    /\ Len(conns) = 1
    /\ Len(sessions) = 1
    /\ Lines("connected") = 1

\* C17: one "connected" line is printed per successful dial, after the dial
\* and before the session over that connection is created; one
\* "reconnecting" line is printed before every sleep and none when
\* reconnectAfter is 0; an "error" line is printed only when reconnectAfter
\* is not 0, and the next line printed after it is the "reconnecting" line
\* of the same iteration.
C17_StatusOrder ==
    /\ Lines("connected") = IF pc = "connected" THEN Len(conns) - 1
                            ELSE Len(conns)
    /\ \A j \in 1..Len(sessions) : sessions[j].conn <= Lines("connected")
    /\ Lines("reconnecting") = IF pc = "sleep" THEN Len(sleeps) + 1
                               ELSE Len(sleeps)
    /\ reconnectAfter = 0 => Lines("reconnecting") = 0 /\ Lines("error") = 0
    /\ \A i \in 1..Len(output) :
         output[i].kind = "error" =>
            IF i < Len(output)
            THEN output[i + 1].kind = "reconnecting"
            ELSE pc = "checkReconnect"
    /\ \A i \in 1..Len(output) :
         (output[i].kind = "connected" /\ i < Len(output)) =>
            output[i + 1].kind \in {"error", "reconnecting"}

C17_Witness ==
    /\ Len(output) = 4
    /\ output[1].kind = "connected"
    /\ output[2].kind = "error"
    /\ output[3].kind = "reconnecting"
    /\ output[4].kind = "connected"
    /\ pc = "yamux"
    /\ Len(sessions) = 1

\* C18: once the configuration is built, runRemoteProxyRelay has returned
\* only if reconnectAfter is 0, and then right after the first iteration;
\* for every other value, negative ones included, it has not returned, it
\* has slept once after every return of connectBackAndRelay, clean or
\* failed, and the dial that follows is the next call.
C18_Inv ==
    LoopEntered =>
        /\ pc = "returned" => reconnectAfter = 0 /\ Len(relayResults) = 1
        /\ (reconnectAfter = 0 /\ relayResults # <<>>) =>
              /\ pc \in {"checkErr", "checkReconnect", "returned"}
              /\ pc = "checkReconnect" => err = NoErr
        /\ reconnectAfter # 0 =>
              /\ pc # "returned"
              /\ Len(sleeps) =
                   IF pc \in {"checkErr", "checkReconnect", "sleep"}
                   THEN Len(relayResults) - 1 ELSE Len(relayResults)
              /\ pc = "dial" => Len(dialLog) = Len(relayResults)
              /\ \A i \in 1..Len(sleeps) : sleeps[i] = reconnectAfter

\* C18, continued: under a loop that runs on, a nonzero reconnectAfter leads
\* to dial after dial, as far as the model follows the loop.
C18_ReturnsIffZero ==
    /\ []C18_Inv
    /\ (reconnectAfter # 0 /\ LoopEntered) ~> (Len(dialLog) = MaxDials)

C18_Witness ==
    /\ reconnectAfter = -1
    /\ pc = "connected"
    /\ Len(dialLog) = 3
    /\ relayResults[1] = NoErr
    /\ relayResults[2] # NoErr
    /\ sleeps = <<-1, -1>>

\* C19: with reconnectAfter = 0, when every call returns, the loop that was
\* entered ends: runRemoteProxyRelay returns after exactly one dial and one
\* call of connectBackAndRelay, with no connection or session left open.
C19_Done ==
    /\ pc = "returned"
    /\ Len(dialLog) = 1
    /\ Len(relayResults) = 1
    /\ result = relayResults[1]
    /\ OpenConns = {}
    /\ OpenSessions = {}
    /\ defers = <<>>

C19_Terminates ==
    (reconnectAfter = 0 /\ LoopEntered) ~> C19_Done

C19_Witness ==
    /\ reconnectAfter = 0
    /\ C19_Done
    /\ result = <<"initialize multiplexer", "invalid config">>
    /\ conns = <<"closed">>
    /\ sessions = <<>>

====
